---- MODULE Spec2Model ----
(***************************************************************************)
(* Process-API programs of topic_2_process_api:                            *)
(*   - the minimal shell   (fork_exec_wait_redirect.c, lines 164-302)      *)
(*   - the redirect demo   (fork_exec_wait_redirect.c, lines 1-163)        *)
(* Each program is a state machine over the processes it creates.  A       *)
(* process advances one library/system call at a time; parent and child    *)
(* interleave freely except where wait() blocks.                           *)
(*                                                                         *)
(* Bytes are integers (C char values); a C string is the prefix of a byte  *)
(* array before its first NUL.  The terminal is a log of what each process *)
(* actually wrote to a descriptor, in the order the writes happened.       *)
(***************************************************************************)
EXTENDS Integers, Sequences, FiniteSets, TLC

VARIABLES
    stdioMode,  \* buffering of stdout: "unbuf", "line" (terminal), "full" (pipe/file)
    term,       \* terminal log: sequence of [pid, fd, text] actually written
    \* ---- minimal shell ----
    input,      \* bytes of stdin not yet consumed by fgets
    buf,        \* char buf[MAXLINE]: the bytes fgets stored, before its terminating NUL
    pc,         \* the shell's position in main
    obuf,       \* the shell's unflushed stdout buffer (sequence of texts)
    children,   \* sequence of child records, index = pid returned by fork
    exitCode,   \* the shell's exit code, -1 while it runs
    oob,        \* outcome of the strip step's buf[strlen(buf) - 1] access
    rd,         \* the bytes the last fgets stored, and whether they began a line
    \* ---- redirect demo ----
    run,        \* which successive run of the program this is
    rpc,        \* parent's position in main
    cpc,        \* child's position in main ("none" before fork)
    pfd,        \* parent's descriptor table: fd -> "tty" | "file" | "closed"
    cfd,        \* child's descriptor table
    robuf,      \* parent's unflushed stdout buffer
    cobuf,      \* child's unflushed stdout buffer
    file,       \* wc_output.txt: [exists, content, mode]
    lastOpen,   \* the child's open() in this run: [flags, ret, errno, created]
    cstatus,    \* how the child of this run terminated, "none" before
    events,     \* system-call trace: sequence of [run, proc, op]
    rexit,      \* exit code of the parent in the current run, -1 while it runs
    \* ---- fork, wait: shared by the redirect demo and the three small demos ----
    cpid,       \* process identifier the system gave the child, -2 before fork
    rc,         \* the parent's rc = fork(), -2 before the call
    rcWait,     \* the parent's rc_wait = wait(&status), -2 before the call
    \* ---- fork.c, fork_wait.c, fork_wait_exec.c ----
    prog,       \* which demo runs: "fork", "fork_wait", "fork_wait_exec"
    dpc,        \* parent's position in main
    dcpc,       \* child's position in main ("none" before fork)
    dobuf,      \* parent's unflushed stdout buffer
    dcobuf,     \* child's unflushed stdout buffer
    dexit,      \* parent's exit code, -1 while it runs
    dcstatus    \* how the child terminated, "none" before

shellVars == <<input, buf, pc, obuf, children, exitCode, oob, rd>>
redirVars == <<run, rpc, cpc, pfd, cfd, robuf, cobuf, file, lastOpen, cstatus,
               events, rexit>>
waitVars == <<cpid, rc, rcWait>>
demoVars == <<prog, dpc, dcpc, dobuf, dcobuf, dexit, dcstatus>>
vars == <<stdioMode, term, shellVars, redirVars, waitVars, demoVars>>

(***************************************************************************)
(* Bounds of the model                                                     *)
(***************************************************************************)
MaxLines == 2      \* input lines fed to the shell
MaxRuns == 2       \* successive runs of the redirect demo
MaxFd == 3         \* descriptors 0..MaxFd exist in a descriptor table

(***************************************************************************)
(* Program constants                                                       *)
(***************************************************************************)
MAXLINE == 100
NL == 10
NUL == 0
STDOUT_FILENO == 1
STDERR_FILENO == 2

StdioModes == {"unbuf", "line", "full"}

(***************************************************************************)
(* stdio: printf to stdout, fprintf to stderr, the flush done by exit      *)
(***************************************************************************)
EndsWithNewline(text) == text \in {"hello\n", "child\n", "parent of\n"}

\* printf: what stays in the user-space buffer afterwards
PrintfBuf(ob, text) ==
    IF stdioMode = "unbuf" \/ (stdioMode = "line" /\ EndsWithNewline(text))
    THEN <<>> ELSE Append(ob, text)

\* printf: the texts handed to write(1, ...) by this call
PrintfOut(ob, text) ==
    IF stdioMode = "unbuf" \/ (stdioMode = "line" /\ EndsWithNewline(text))
    THEN Append(ob, text) ELSE <<>>

\* the log entries of one process writing `texts` to descriptor fd
Written(pid, fd, texts) == [i \in 1..Len(texts) |-> [pid |-> pid, fd |-> fd, text |-> texts[i]]]

(***************************************************************************)
(* C strings and the shell's input                                         *)
(***************************************************************************)
Min(a, b) == IF a < b THEN a ELSE b

\* strlen: the number of bytes before the first NUL
Strlen(b) ==
    IF \E i \in 1..Len(b) : b[i] = NUL
    THEN (CHOOSE i \in 1..Len(b) : b[i] = NUL /\ \A j \in 1..(i - 1) : b[j] # NUL) - 1
    ELSE Len(b)

\* the C string held in a byte array
CStr(b) == SubSeq(b, 1, Strlen(b))

\* fgets(buf, n, stdin): how many bytes it stores from `in` (in # <<>>):
\* at most n - 1, stopping after the first newline
FgetsCount(in, n) ==
    LET upto == IF \E i \in 1..Len(in) : in[i] = NL
                THEN CHOOSE i \in 1..Len(in) : in[i] = NL /\ \A j \in 1..(i - 1) : in[j] # NL
                ELSE Len(in)
    IN  Min(n - 1, upto)

Rep(c, n) == [i \in 1..n |-> c]

\* what a user may type on one line (without the newline)
ls == <<108, 115>>
LineItems ==
    { <<>>,                          \* empty line
      ls,                            \* "ls"
      <<108, 115, 32, 45, 108>>,     \* "ls -l"
      <<120, 121, 122>>,             \* "xyz", no such program
      <<NUL, 108, 115>>,             \* a line starting with a NUL byte
      <<108, NUL, 115>>,             \* a line with a NUL byte inside
      Rep(97, MAXLINE + 20),         \* a line longer than the buffer
      Rep(97, MAXLINE - 1) \o <<NUL, 98>> }  \* a longer line with a NUL as byte MAXLINE

\* the programs execvp finds on PATH
Programs == {ls}

RECURSIVE Join(_, _)
\* the byte stream of the lines `items`; the last line ends with a newline iff `closed`
Join(items, closed) ==
    IF items = <<>> THEN <<>>
    ELSE IF Len(items) = 1 THEN (IF closed THEN Append(items[1], NL) ELSE items[1])
    ELSE Append(items[1], NL) \o Join(Tail(items), closed)

Inputs ==
    { Join(items, closed) :
        items \in UNION { [1..n -> LineItems] : n \in 0..MaxLines }, closed \in BOOLEAN }

(***************************************************************************)
(* The minimal shell: main, lines 185-302                                  *)
(***************************************************************************)
Pids == 1..Len(children)

Live(p) == children[p].pc \notin {"zombie", "reaped"}

NewChild == [pc |-> "exec", buf |-> buf, obuf |-> obuf, file |-> <<>>, argv |-> <<>>,
             wrote |-> FALSE, status |-> "none"]

\* nothing read yet
NoRead == [chunk |-> <<>>, atStart |-> TRUE]

\* stdin is positioned at the beginning of a line: nothing was read yet, or
\* the last fgets stopped after a newline
AtLineStart == rd.chunk = <<>> \/ rd.chunk[Len(rd.chunk)] = NL

\* line 194: printf("%% ") before the loop
ShellFirstPrompt ==
    /\ pc = "start"
    /\ term' = term \o Written(0, STDOUT_FILENO, PrintfOut(obuf, "% "))
    /\ obuf' = PrintfBuf(obuf, "% ")
    /\ pc' = "fgets"
    /\ UNCHANGED <<stdioMode, input, buf, children, exitCode, oob, rd, redirVars, waitVars, demoVars>>

\* line 202: fgets(buf, MAXLINE, stdin); a line-buffered stdout is flushed
\* when stdin has to be refilled
ShellFgets ==
    /\ pc = "fgets"
    /\ IF stdioMode = "line"
       THEN term' = term \o Written(0, STDOUT_FILENO, obuf) /\ obuf' = <<>>
       ELSE UNCHANGED <<term, obuf>>
    /\ IF input = <<>>
       THEN pc' = "exit0" /\ UNCHANGED <<input, buf, rd>>
       ELSE LET n == FgetsCount(input, MAXLINE)
            IN  /\ buf' = SubSeq(input, 1, n)
                /\ input' = SubSeq(input, n + 1, Len(input))
                /\ rd' = [chunk |-> SubSeq(input, 1, n), atStart |-> AtLineStart]
                /\ pc' = "strip"
    /\ UNCHANGED <<stdioMode, children, exitCode, oob, redirVars, waitVars, demoVars>>

\* ShellStrip as it would be without the newline removal
StripNothing ==
    /\ pc = "strip"
    /\ pc' = "fork"
    /\ UNCHANGED <<stdioMode, term, input, buf, obuf, children, exitCode, oob, rd, redirVars, waitVars, demoVars>>

\* lines 211-212: if (buf[strlen(buf) - 1] == '\n') buf[strlen(buf) - 1] = '\0';
\* with strlen(buf) = 0 the index is -1, outside buf: the byte there may or
\* may not be a newline, so the access is a read, or a read and a write
ShellStrip ==
    /\ pc = "strip"
    /\ LET len == Strlen(buf)
       IN  IF len = 0
           THEN /\ \E o \in {"read", "write"} : oob' = o
                /\ UNCHANGED buf
           ELSE /\ buf' = IF buf[len] = NL THEN [buf EXCEPT ![len] = NUL] ELSE buf
                /\ UNCHANGED oob
    /\ pc' = "fork"
    /\ UNCHANGED <<stdioMode, term, input, obuf, children, exitCode, rd, redirVars, waitVars, demoVars>>

\* line 224: rc = fork() succeeds; the child is a copy of the shell
ShellFork ==
    /\ pc = "fork"
    /\ children' = Append(children, NewChild)
    /\ pc' = "wait"
    /\ UNCHANGED <<stdioMode, term, input, buf, obuf, exitCode, oob, rd, redirVars, waitVars, demoVars>>

\* ShellForkFail as it would be if a failed fork were ignored and the loop went on
ForkFailContinue ==
    /\ pc = "fork"
    /\ pc' = "prompt"
    /\ UNCHANGED <<stdioMode, term, input, buf, obuf, children, exitCode, oob, rd, redirVars, waitVars, demoVars>>

\* line 224: rc = fork() fails (rc < 0)
ShellForkFail ==
    /\ pc = "fork"
    /\ pc' = "forkerr"
    /\ UNCHANGED <<stdioMode, term, input, buf, obuf, children, exitCode, oob, rd, redirVars, waitVars, demoVars>>

\* line 229: fprintf(stderr, "Fork error\n")
ShellForkError ==
    /\ pc = "forkerr"
    /\ term' = Append(term, [pid |-> 0, fd |-> STDERR_FILENO, text |-> "Fork error\n"])
    /\ pc' = "exit1"
    /\ UNCHANGED <<stdioMode, input, buf, obuf, children, exitCode, oob, rd, redirVars, waitVars, demoVars>>

\* line 230: exit(1); exit flushes stdout
ShellExit1 ==
    /\ pc = "exit1"
    /\ term' = term \o Written(0, STDOUT_FILENO, obuf)
    /\ obuf' = <<>>
    /\ exitCode' = 1
    /\ pc' = "done"
    /\ UNCHANGED <<stdioMode, input, buf, children, oob, rd, redirVars, waitVars, demoVars>>

\* ShellWait as it would be if a child that did not exit with 0 ended the shell
WaitAbortOnFailure ==
    /\ pc = "wait"
    /\ \E p \in Pids :
           /\ children[p].pc = "zombie"
           /\ children' = [children EXCEPT ![p].pc = "reaped"]
           /\ pc' = IF children[p].status = "exit0" THEN "prompt" ELSE "exit1"
    /\ UNCHANGED <<stdioMode, term, input, buf, obuf, exitCode, oob, rd, redirVars, waitVars, demoVars>>

\* ShellWait as it would be if wait did not block (WNOHANG behaviour)
WaitNoHang ==
    /\ pc = "wait"
    /\ pc' = "prompt"
    /\ UNCHANGED <<stdioMode, term, input, buf, obuf, children, exitCode, oob, rd, redirVars, waitVars, demoVars>>

\* line 294: wait(NULL): returns at once when there is no child to wait for,
\* otherwise blocks until some child has terminated and reaps it
ShellWait ==
    /\ pc = "wait"
    /\ IF \A p \in Pids : children[p].pc = "reaped"
       THEN UNCHANGED children
       ELSE \E p \in Pids :
                /\ children[p].pc = "zombie"
                /\ children' = [children EXCEPT ![p].pc = "reaped"]
    /\ pc' = "prompt"
    /\ UNCHANGED <<stdioMode, term, input, buf, obuf, exitCode, oob, rd, redirVars, waitVars, demoVars>>

\* ShellPrompt as it would be without the printf
PromptMissing ==
    /\ pc = "prompt"
    /\ pc' = "fgets"
    /\ UNCHANGED <<stdioMode, term, input, buf, obuf, children, exitCode, oob, rd, redirVars, waitVars, demoVars>>

\* line 297: printf("%% ") after the child finished
ShellPrompt ==
    /\ pc = "prompt"
    /\ term' = term \o Written(0, STDOUT_FILENO, PrintfOut(obuf, "% "))
    /\ obuf' = PrintfBuf(obuf, "% ")
    /\ pc' = "fgets"
    /\ UNCHANGED <<stdioMode, input, buf, children, exitCode, oob, rd, redirVars, waitVars, demoVars>>

\* ShellExit0 as it would be with exit(1) after the loop
ExitOneAtEof ==
    /\ pc = "exit0"
    /\ term' = term \o Written(0, STDOUT_FILENO, obuf)
    /\ obuf' = <<>>
    /\ exitCode' = 1
    /\ pc' = "done"
    /\ UNCHANGED <<stdioMode, input, buf, children, oob, rd, redirVars, waitVars, demoVars>>

\* line 301: exit(0); exit flushes stdout
ShellExit0 ==
    /\ pc = "exit0"
    /\ term' = term \o Written(0, STDOUT_FILENO, obuf)
    /\ obuf' = <<>>
    /\ exitCode' = 0
    /\ pc' = "done"
    /\ UNCHANGED <<stdioMode, input, buf, children, oob, rd, redirVars, waitVars, demoVars>>

Whitespace == {32, 9, NL}

\* the first whitespace-free token of a byte string
FirstToken(s) ==
    LET starts == {i \in 1..Len(s) : s[i] \notin Whitespace}
    IN  IF starts = {} THEN <<>>
        ELSE LET a == CHOOSE i \in starts : \A j \in starts : i <= j
                 stops == {i \in a..Len(s) : s[i] \in Whitespace}
                 b == IF stops = {} THEN Len(s)
                      ELSE (CHOOSE i \in stops : \A j \in stops : i <= j) - 1
             IN  SubSeq(s, a, b)

\* ChildExec as it would be if the line were split at whitespace
ChildExecFirstToken(p) ==
    /\ children[p].pc = "exec"
    /\ LET name == FirstToken(CStr(children[p].buf))
       IN  children' = [children EXCEPT
               ![p].file = name,
               ![p].argv = <<name>>,
               ![p].pc = IF name \in Programs THEN "running" ELSE "execfail",
               ![p].obuf = IF name \in Programs THEN <<>> ELSE children[p].obuf]
    /\ UNCHANGED <<stdioMode, term, input, buf, pc, obuf, exitCode, oob, rd, redirVars, waitVars, demoVars>>

\* lines 250-269: argv[0] = buf; argv[1] = NULL; execvp(buf, argv).
\* argv is the sequence of its elements before the NULL sentinel.  On success
\* the process image, and with it the stdio buffer, is replaced.
ChildExec(p) ==
    /\ children[p].pc = "exec"
    /\ LET name == CStr(children[p].buf)
       IN  children' = [children EXCEPT
               ![p].file = name,
               ![p].argv = <<name>>,
               ![p].pc = IF name \in Programs THEN "running" ELSE "execfail",
               ![p].obuf = IF name \in Programs THEN <<>> ELSE children[p].obuf]
    /\ UNCHANGED <<stdioMode, term, input, buf, pc, obuf, exitCode, oob, rd, redirVars, waitVars, demoVars>>

\* ChildExecError as it would be with printf instead of fprintf(stderr, ...)
ExecErrorToStdout(p) ==
    /\ children[p].pc = "execfail"
    /\ term' = term \o Written(p, STDOUT_FILENO, PrintfOut(children[p].obuf, "exec error\n"))
    /\ children' = [children EXCEPT ![p].pc = "exit1",
                                    ![p].obuf = PrintfBuf(children[p].obuf, "exec error\n")]
    /\ UNCHANGED <<stdioMode, input, buf, pc, obuf, exitCode, oob, rd, redirVars, waitVars, demoVars>>

\* line 272: fprintf(stderr, "exec error\n")
ChildExecError(p) ==
    /\ children[p].pc = "execfail"
    /\ term' = Append(term, [pid |-> p, fd |-> STDERR_FILENO, text |-> "exec error\n"])
    /\ children' = [children EXCEPT ![p].pc = "exit1"]
    /\ UNCHANGED <<stdioMode, input, buf, pc, obuf, exitCode, oob, rd, redirVars, waitVars, demoVars>>

\* ChildExit1 as it would be without the exit(1): the child falls out of the
\* if/else into the while condition and runs the read loop itself
ChildFallsThrough(p) ==
    /\ children[p].pc = "exit1"
    /\ IF input = <<>>
       THEN /\ children' = [children EXCEPT ![p].pc = "zombie", ![p].status = "exit0"]
            /\ UNCHANGED input
       ELSE LET n == FgetsCount(input, MAXLINE)
            IN  /\ children' = [children EXCEPT ![p].pc = "exec",
                                                ![p].buf = SubSeq(input, 1, n)]
                /\ input' = SubSeq(input, n + 1, Len(input))
    /\ UNCHANGED <<stdioMode, term, buf, pc, obuf, exitCode, oob, rd, redirVars, waitVars, demoVars>>

\* line 273: exit(1) in the child; exit flushes the child's copy of stdout
ChildExit1(p) ==
    /\ children[p].pc = "exit1"
    /\ term' = term \o Written(p, STDOUT_FILENO, children[p].obuf)
    /\ children' = [children EXCEPT ![p].pc = "zombie", ![p].obuf = <<>>,
                                    ![p].status = "exit1"]
    /\ UNCHANGED <<stdioMode, input, buf, pc, obuf, exitCode, oob, rd, redirVars, waitVars, demoVars>>

\* the external program writes its output to descriptor 1
ProgramWrite(p) ==
    /\ children[p].pc = "running"
    /\ ~children[p].wrote
    /\ term' = Append(term, [pid |-> p, fd |-> STDOUT_FILENO, text |-> "output"])
    /\ children' = [children EXCEPT ![p].wrote = TRUE]
    /\ UNCHANGED <<stdioMode, input, buf, pc, obuf, exitCode, oob, rd, redirVars, waitVars, demoVars>>

\* the external program terminates: exit 0, a non-zero exit, or a signal
ProgramEnd(p) ==
    /\ children[p].pc = "running"
    /\ \E d \in {"exit0", "exitN", "signal"} :
           children' = [children EXCEPT ![p].pc = "zombie", ![p].status = d]
    /\ UNCHANGED <<stdioMode, term, input, buf, pc, obuf, exitCode, oob, rd, redirVars, waitVars, demoVars>>

NoFile == [exists |-> FALSE, content |-> <<>>, mode |-> 0]

NoOpen == [flags |-> -1, ret |-> -2, errno |-> "none", created |-> FALSE]

ShellIdle ==
    /\ input = <<>> /\ buf = <<>> /\ pc = "off" /\ obuf = <<>>
    /\ children = <<>> /\ exitCode = -1 /\ oob = "none" /\ rd = NoRead

RedirIdle ==
    /\ run = 0 /\ rpc = "off" /\ cpc = "none"
    /\ pfd = <<>> /\ cfd = <<>> /\ robuf = <<>> /\ cobuf = <<>>
    /\ file = NoFile
    /\ lastOpen = NoOpen /\ cstatus = "none" /\ events = <<>> /\ rexit = -1

\* process identifiers fork can return to the parent
ChildPids == {4001, 4002}

WaitIdle == cpid = -2 /\ rc = -2 /\ rcWait = -2

DemoIdle ==
    /\ prog = "none" /\ dpc = "off" /\ dcpc = "none"
    /\ dobuf = <<>> /\ dcobuf = <<>> /\ dexit = -1 /\ dcstatus = "none"

Init ==
    /\ stdioMode \in StdioModes
    /\ term = <<>>
    /\ input \in Inputs
    /\ buf = <<>>
    /\ pc = "start"
    /\ obuf = <<>>
    /\ children = <<>>
    /\ exitCode = -1
    /\ oob = "none"
    /\ rd = NoRead
    /\ RedirIdle
    /\ DemoIdle
    /\ WaitIdle

Next ==
    \/ ShellFirstPrompt
    \/ ShellFgets
    \/ ShellStrip
    \/ ShellFork
    \/ ShellForkFail
    \/ ShellForkError
    \/ ShellExit1
    \/ ShellWait
    \/ ShellPrompt
    \/ ShellExit0
    \/ \E p \in Pids : ChildExec(p)
    \/ \E p \in Pids : ChildExecError(p)
    \/ \E p \in Pids : ChildExit1(p)
    \/ \E p \in Pids : ProgramWrite(p)
    \/ \E p \in Pids : ProgramEnd(p)

Spec == Init /\ [][Next]_vars

\* the steps of the shell process, of the code a child runs before execvp
\* replaces it, and the termination of an exec'ed program
ShellNext ==
    \/ ShellFirstPrompt
    \/ ShellFgets
    \/ ShellStrip
    \/ ShellFork
    \/ ShellForkFail
    \/ ShellForkError
    \/ ShellExit1
    \/ ShellWait
    \/ ShellPrompt
    \/ ShellExit0

ChildNext ==
    \/ \E p \in Pids : ChildExec(p)
    \/ \E p \in Pids : ChildExecError(p)
    \/ \E p \in Pids : ChildExit1(p)

ProgramsEnd == \E p \in Pids : ProgramEnd(p)

\* the shell under a scheduler that lets every runnable process run, with
\* exec'ed programs that terminate
LiveSpec ==
    /\ Init /\ [][Next]_vars
    /\ WF_vars(ShellNext)
    /\ WF_vars(ChildNext)
    /\ WF_vars(ProgramsEnd)

(***************************************************************************)
(* The redirect demo: main, lines 21-163                                   *)
(***************************************************************************)
\* <fcntl.h> and <sys/stat.h> of Linux (asm-generic)
O_RDWR == 2
O_CREAT == 64
O_EXCL == 128
O_TRUNC == 512
S_IRWXU == 448
S_IRUSR == 256
S_IWUSR == 128

RECURSIVE BitOr(_, _)
\* a | b
BitOr(a, b) ==
    IF a = 0 THEN b
    ELSE IF b = 0 THEN a
    ELSE (IF a % 2 = 1 \/ b % 2 = 1 THEN 1 ELSE 0) + 2 * BitOr(a \div 2, b \div 2)

\* flags & bit # 0, for a single-bit constant
HasBit(flags, bit) == (flags \div bit) % 2 = 1

\* the flags the source intends: read-write, create, truncate
IntendedFlags == BitOr(BitOr(O_RDWR, O_CREAT), O_TRUNC)

\* line 90: the single flags argument of open(); no mode argument is passed
OpenFlags == BitOr(BitOr(BitOr(O_RDWR, O_CREAT), O_TRUNC), S_IRWXU)

\* the value open() reads as its absent mode argument is indeterminate
ModeChoices == {0, S_IRUSR, S_IRWXU}

Fds == 0..MaxFd

\* descriptor tables a program can be started with: each of 0, 1, 2 open or closed
InheritedTables ==
    { [fd \in Fds |-> IF fd \in open THEN "tty" ELSE "closed"] : open \in SUBSET {0, 1, 2} }

FreeFds(table) == {fd \in Fds : table[fd] = "closed"}

LowestFree(table) == CHOOSE fd \in FreeFds(table) : \A g \in FreeFds(table) : fd <= g

\* errno of open(path, flags) on file f in descriptor table `table`;
\* envOk = FALSE stands for a refusal by the environment (read-only or full
\* file system, unwritable directory)
OpenErrno(table, f, flags, envOk) ==
    IF f.exists /\ HasBit(flags, O_CREAT) /\ HasBit(flags, O_EXCL) THEN "EEXIST"
    ELSE IF ~f.exists /\ ~HasBit(flags, O_CREAT) THEN "ENOENT"
    ELSE IF f.exists /\ ~(HasBit(f.mode, S_IRUSR) /\ HasBit(f.mode, S_IWUSR)) THEN "EACCES"
    ELSE IF ~envOk THEN "ENV"
    ELSE IF FreeFds(table) = {} THEN "EMFILE"
    ELSE "none"

\* the file after a successful open: created with mode m, or truncated
OpenedFile(f, flags, m) ==
    IF ~f.exists THEN [exists |-> TRUE, content |-> <<>>, mode |-> m]
    ELSE IF HasBit(flags, O_TRUNC) THEN [f EXCEPT !.content = <<>>]
    ELSE f

\* write(fd, texts) by process pid: what the terminal and the file hold afterwards
TermAfter(table, pid, fd, texts) ==
    IF table[fd] = "tty" THEN term \o Written(pid, fd, texts) ELSE term

FileAfter(table, fd, texts) ==
    IF table[fd] = "file"
    THEN [file EXCEPT !.content = @ \o [i \in 1..Len(texts) |-> [run |-> run, text |-> texts[i]]]]
    ELSE file

Event(proc, op) == [run |-> run, proc |-> proc, op |-> op]

\* RHello as it would be if the redirection were set up before the fork
RHelloRedirectFirst ==
    /\ rpc = "hello"
    /\ term' = TermAfter(pfd, 0, STDOUT_FILENO, PrintfOut(robuf, "hello\n"))
    /\ robuf' = PrintfBuf(robuf, "hello\n")
    /\ pfd' = [pfd EXCEPT ![STDOUT_FILENO] = "closed"]
    /\ events' = Append(events, Event("parent", "close"))
    /\ rpc' = "fork"
    /\ UNCHANGED <<stdioMode, shellVars, demoVars, waitVars, run, cpc, cfd, cobuf, file, lastOpen, cstatus, rexit>>

\* line 28: printf("hello (pid:%ld)\n", ...)
RHello ==
    /\ rpc = "hello"
    /\ term' = TermAfter(pfd, 0, STDOUT_FILENO, PrintfOut(robuf, "hello\n"))
    /\ robuf' = PrintfBuf(robuf, "hello\n")
    /\ rpc' = "fork"
    /\ UNCHANGED <<stdioMode, shellVars, demoVars, waitVars, run, cpc, pfd, cfd, cobuf, file, lastOpen,
                   cstatus, events, rexit>>

\* line 43: rc = fork() succeeds; the child copies the descriptor table and
\* the stdio buffer
RFork ==
    /\ rpc = "fork"
    /\ cpc' = "close"
    /\ cfd' = pfd
    /\ cobuf' = robuf
    /\ events' = Append(events, Event("parent", "fork"))
    /\ rpc' = "wait"
    /\ \E p \in ChildPids : cpid' = p /\ rc' = p
    /\ UNCHANGED rcWait
    /\ UNCHANGED <<stdioMode, term, shellVars, demoVars, run, pfd, robuf, file, lastOpen, cstatus, rexit>>

\* line 43: rc = fork() fails
RForkFail ==
    /\ rpc = "fork"
    /\ rpc' = "forkerr"
    /\ rc' = -1
    /\ UNCHANGED <<cpid, rcWait>>
    /\ UNCHANGED <<stdioMode, term, shellVars, demoVars, run, cpc, pfd, cfd, robuf, cobuf, file,
                   lastOpen, cstatus, events, rexit>>

\* line 51: fprintf(stderr, "fork failed\n")
RForkError ==
    /\ rpc = "forkerr"
    /\ term' = TermAfter(pfd, 0, STDERR_FILENO, <<"fork failed\n">>)
    /\ rpc' = "exit1"
    /\ UNCHANGED <<stdioMode, shellVars, demoVars, waitVars, run, cpc, pfd, cfd, robuf, cobuf, file, lastOpen,
                   cstatus, events, rexit>>

\* line 52: exit(1)
RExit1 ==
    /\ rpc = "exit1"
    /\ term' = TermAfter(pfd, 0, STDOUT_FILENO, robuf)
    /\ robuf' = <<>>
    /\ rexit' = 1
    /\ rpc' = "done"
    /\ UNCHANGED <<stdioMode, shellVars, demoVars, waitVars, run, cpc, pfd, cfd, cobuf, file, lastOpen,
                   cstatus, events>>

\* CClose as it would be if parent and child shared one descriptor table
CCloseShared ==
    /\ cpc = "close"
    /\ cfd' = [cfd EXCEPT ![STDOUT_FILENO] = "closed"]
    /\ pfd' = [pfd EXCEPT ![STDOUT_FILENO] = "closed"]
    /\ events' = Append(events, Event("child", "close"))
    /\ cpc' = "open"
    /\ UNCHANGED <<stdioMode, term, shellVars, demoVars, waitVars, run, rpc, robuf, cobuf, file, lastOpen,
                   cstatus, rexit>>

\* line 71: close(STDOUT_FILENO)
CClose ==
    /\ cpc = "close"
    /\ cfd' = [cfd EXCEPT ![STDOUT_FILENO] = "closed"]
    /\ events' = Append(events, Event("child", "close"))
    /\ cpc' = "open"
    /\ UNCHANGED <<stdioMode, term, shellVars, demoVars, waitVars, run, rpc, pfd, robuf, cobuf, file, lastOpen,
                   cstatus, rexit>>

\* COpen as it would be if a failed open made the child report it and exit
COpenChecked ==
    /\ cpc = "open"
    /\ \E envOk \in BOOLEAN, m \in ModeChoices :
         LET err == OpenErrno(cfd, file, OpenFlags, envOk)
             fd == IF err = "none" THEN LowestFree(cfd) ELSE -1
         IN  /\ lastOpen' = [flags |-> OpenFlags, ret |-> fd, errno |-> err,
                             created |-> (err = "none" /\ ~file.exists)]
             /\ cfd' = IF err = "none" THEN [cfd EXCEPT ![fd] = "file"] ELSE cfd
             /\ file' = IF err = "none" THEN OpenedFile(file, OpenFlags, m) ELSE file
             /\ cpc' = IF err = "none" THEN "exec" ELSE "exit1"
             /\ term' = IF err = "none" THEN term
                        ELSE TermAfter(cfd, 1, STDERR_FILENO, <<"open failed\n">>)
    /\ events' = Append(events, Event("child", "open"))
    /\ UNCHANGED <<stdioMode, shellVars, demoVars, waitVars, run, rpc, pfd, robuf, cobuf, cstatus, rexit>>

\* line 90: open("wc_output.txt", O_RDWR | O_CREAT | O_TRUNC | S_IRWXU);
\* the result is not looked at
COpen ==
    /\ cpc = "open"
    /\ \E envOk \in BOOLEAN, m \in ModeChoices :
         LET err == OpenErrno(cfd, file, OpenFlags, envOk)
             fd == IF err = "none" THEN LowestFree(cfd) ELSE -1
         IN  /\ lastOpen' = [flags |-> OpenFlags, ret |-> fd, errno |-> err,
                             created |-> (err = "none" /\ ~file.exists)]
             /\ cfd' = IF err = "none" THEN [cfd EXCEPT ![fd] = "file"] ELSE cfd
             /\ file' = IF err = "none" THEN OpenedFile(file, OpenFlags, m) ELSE file
    /\ events' = Append(events, Event("child", "open"))
    /\ cpc' = "exec"
    /\ UNCHANGED <<stdioMode, term, shellVars, demoVars, waitVars, run, rpc, pfd, robuf, cobuf, cstatus, rexit>>

\* line 119: execvp("wc", argv) succeeds: the image and its stdio buffer are
\* replaced, the descriptor table is kept
CExec ==
    /\ cpc = "exec"
    /\ cobuf' = <<>>
    /\ events' = Append(events, Event("child", "exec"))
    /\ cpc' = "wc"
    /\ UNCHANGED <<stdioMode, term, shellVars, demoVars, waitVars, run, rpc, pfd, cfd, robuf, file, lastOpen,
                   cstatus, rexit>>

\* line 119: execvp("wc", argv) returns: wc could not be loaded
CExecFail ==
    /\ cpc = "exec"
    /\ events' = Append(events, Event("child", "exec"))
    /\ cpc' = "execfail"
    /\ UNCHANGED <<stdioMode, term, shellVars, demoVars, waitVars, run, rpc, pfd, cfd, robuf, cobuf, file,
                   lastOpen, cstatus, rexit>>

\* line 125: fprintf(stderr, "exec failed\n")
CExecError ==
    /\ cpc = "execfail"
    /\ term' = TermAfter(cfd, 1, STDERR_FILENO, <<"exec failed\n">>)
    /\ cpc' = "exit1"
    /\ UNCHANGED <<stdioMode, shellVars, demoVars, waitVars, run, rpc, pfd, cfd, robuf, cobuf, file, lastOpen,
                   cstatus, events, rexit>>

\* line 126: exit(1) in the child; exit flushes the child's copy of stdout
\* to whatever descriptor 1 is now
CExit1 ==
    /\ cpc = "exit1"
    /\ term' = TermAfter(cfd, 1, STDOUT_FILENO, cobuf)
    /\ file' = FileAfter(cfd, STDOUT_FILENO, cobuf)
    /\ cobuf' = <<>>
    /\ cstatus' = "exit1"
    /\ cpc' = "zombie"
    /\ UNCHANGED <<stdioMode, shellVars, demoVars, waitVars, run, rpc, pfd, cfd, robuf, lastOpen, events, rexit>>

\* wc writes its counts to descriptor 1 and exits: 0 if the write succeeded,
\* 1 if descriptor 1 is not open
WcRun ==
    /\ cpc = "wc"
    /\ term' = TermAfter(cfd, 1, STDOUT_FILENO, <<"wc output">>)
    /\ file' = FileAfter(cfd, STDOUT_FILENO, <<"wc output">>)
    /\ cstatus' = IF cfd[STDOUT_FILENO] = "closed" THEN "exit1" ELSE "exit0"
    /\ events' = Append(events, Event("child", "wc"))
    /\ cpc' = "zombie"
    /\ UNCHANGED <<stdioMode, shellVars, demoVars, waitVars, run, rpc, pfd, cfd, robuf, cobuf, lastOpen, rexit>>

\* line 149: rc_wait = wait(&status) blocks until the child has terminated
RWait ==
    /\ rpc = "wait"
    /\ cpc = "zombie"
    /\ cpc' = "reaped"
    /\ events' = Append(events, Event("parent", "wait"))
    /\ rpc' = "summary"
    /\ rcWait' = cpid
    /\ UNCHANGED <<cpid, rc>>
    /\ UNCHANGED <<stdioMode, term, shellVars, demoVars, run, pfd, cfd, robuf, cobuf, file, lastOpen,
                   cstatus, rexit>>

\* line 158: printf("parent of %ld (rc_wait: %ld) (pid: %ld)\n", ...)
RSummary ==
    /\ rpc = "summary"
    /\ term' = TermAfter(pfd, 0, STDOUT_FILENO, PrintfOut(robuf, "parent of\n"))
    /\ robuf' = PrintfBuf(robuf, "parent of\n")
    /\ rpc' = "exit0"
    /\ UNCHANGED <<stdioMode, shellVars, demoVars, waitVars, run, cpc, pfd, cfd, cobuf, file, lastOpen,
                   cstatus, events, rexit>>

\* line 162: exit(0)
RExit0 ==
    /\ rpc = "exit0"
    /\ term' = TermAfter(pfd, 0, STDOUT_FILENO, robuf)
    /\ robuf' = <<>>
    /\ rexit' = 0
    /\ rpc' = "done"
    /\ UNCHANGED <<stdioMode, shellVars, demoVars, waitVars, run, cpc, pfd, cfd, cobuf, file, lastOpen,
                   cstatus, events>>

\* the program is started again, in the same directory and with the same
\* inherited descriptors
RunAgain ==
    /\ rpc = "done"
    /\ run < MaxRuns
    /\ run' = run + 1
    /\ rpc' = "hello"
    /\ cpc' = "none"
    /\ cfd' = <<>>
    /\ cobuf' = <<>>
    /\ lastOpen' = NoOpen
    /\ cstatus' = "none"
    /\ rexit' = -1
    /\ cpid' = -2 /\ rc' = -2 /\ rcWait' = -2
    /\ UNCHANGED <<stdioMode, term, shellVars, demoVars, pfd, robuf, file, events>>

\* wc_output.txt before the first run: absent, or left over from earlier
InitialFiles ==
    {NoFile} \cup { [exists |-> TRUE, content |-> <<[run |-> 0, text |-> "old"]>>, mode |-> m] :
                      m \in ModeChoices }

InitRedirect ==
    /\ stdioMode \in StdioModes
    /\ term = <<>>
    /\ ShellIdle
    /\ DemoIdle
    /\ WaitIdle
    /\ run = 1
    /\ rpc = "hello"
    /\ cpc = "none"
    /\ pfd \in InheritedTables
    /\ cfd = <<>>
    /\ robuf = <<>>
    /\ cobuf = <<>>
    /\ file \in InitialFiles
    /\ lastOpen = NoOpen
    /\ cstatus = "none"
    /\ events = <<>>
    /\ rexit = -1

NextRedirect ==
    \/ RHello
    \/ RFork
    \/ RForkFail
    \/ RForkError
    \/ RExit1
    \/ CClose
    \/ COpen
    \/ CExec
    \/ CExecFail
    \/ CExecError
    \/ CExit1
    \/ WcRun
    \/ RWait
    \/ RSummary
    \/ RExit0
    \/ RunAgain

SpecRedirect == InitRedirect /\ [][NextRedirect]_vars

(***************************************************************************)
(* The three small demos: fork.c, fork_wait.c and fork_wait_exec.c         *)
(* (src/unnamed/part_000).  The parent is process 0 of the terminal log,   *)
(* the child process 1; both write to the descriptors they inherited.      *)
(***************************************************************************)
Demos == {"fork", "fork_wait", "fork_wait_exec"}
WaitDemos == {"fork_wait", "fork_wait_exec"}

\* printf("hello (pid: %ld)\n", ...) before the fork
DHello ==
    /\ dpc = "hello"
    /\ term' = term \o Written(0, STDOUT_FILENO, PrintfOut(dobuf, "hello\n"))
    /\ dobuf' = PrintfBuf(dobuf, "hello\n")
    /\ dpc' = "fork"
    /\ UNCHANGED <<stdioMode, shellVars, redirVars, waitVars, prog, dcpc, dcobuf, dexit, dcstatus>>

\* rc = fork() succeeds: the child starts at its branch with a copy of the
\* parent's stdio buffer; the parent of fork.c goes on to its printf, the
\* parent of the other two to wait
DFork ==
    /\ dpc = "fork"
    /\ \E p \in ChildPids : cpid' = p /\ rc' = p
    /\ dcpc' = "print"
    /\ dcobuf' = dobuf
    /\ dpc' = IF prog = "fork" THEN "print" ELSE "wait"
    /\ UNCHANGED <<stdioMode, term, shellVars, redirVars, rcWait, prog, dobuf, dexit, dcstatus>>

\* rc = fork() fails: rc < 0, no child
DForkFail ==
    /\ dpc = "fork"
    /\ rc' = -1
    /\ dpc' = "forkerr"
    /\ UNCHANGED <<stdioMode, term, shellVars, redirVars, cpid, rcWait, prog, dcpc, dobuf, dcobuf,
                   dexit, dcstatus>>

\* fprintf(stderr, "fork failed\n")
DForkError ==
    /\ dpc = "forkerr"
    /\ term' = Append(term, [pid |-> 0, fd |-> STDERR_FILENO, text |-> "fork failed\n"])
    /\ dpc' = "exit1"
    /\ UNCHANGED <<stdioMode, shellVars, redirVars, waitVars, prog, dcpc, dobuf, dcobuf, dexit,
                   dcstatus>>

\* exit(1) after the failed fork: flushes stdout
DExit1 ==
    /\ dpc = "exit1"
    /\ term' = term \o Written(0, STDOUT_FILENO, dobuf)
    /\ dobuf' = <<>>
    /\ dexit' = 1
    /\ dpc' = "done"
    /\ UNCHANGED <<stdioMode, shellVars, redirVars, waitVars, prog, dcpc, dcobuf, dcstatus>>

\* the child's printf("child (pid: %ld)\n", ...); the child of fork.c then
\* leaves the if and reaches the exit(0) at the end of main, the child of
\* fork_wait.c calls exit(0), the child of fork_wait_exec.c goes on to exec
DChildPrint ==
    /\ dcpc = "print"
    /\ term' = term \o Written(1, STDOUT_FILENO, PrintfOut(dcobuf, "child\n"))
    /\ dcobuf' = PrintfBuf(dcobuf, "child\n")
    /\ dcpc' = IF prog = "fork_wait_exec" THEN "exec" ELSE "exit0"
    /\ UNCHANGED <<stdioMode, shellVars, redirVars, waitVars, prog, dpc, dobuf, dexit, dcstatus>>

\* the child's exit(0): flushes stdout
DChildExit0 ==
    /\ dcpc = "exit0"
    /\ term' = term \o Written(1, STDOUT_FILENO, dcobuf)
    /\ dcobuf' = <<>>
    /\ dcstatus' = "exit0"
    /\ dcpc' = "zombie"
    /\ UNCHANGED <<stdioMode, shellVars, redirVars, waitVars, prog, dpc, dobuf, dexit>>

\* execvp("wc", argv) succeeds: the image and with it the unflushed stdio
\* buffer are replaced
DChildExec ==
    /\ dcpc = "exec"
    /\ dcobuf' = <<>>
    /\ dcpc' = "wc"
    /\ UNCHANGED <<stdioMode, term, shellVars, redirVars, waitVars, prog, dpc, dobuf, dexit, dcstatus>>

\* execvp("wc", argv) returns -1
DChildExecFail ==
    /\ dcpc = "exec"
    /\ dcpc' = "execfail"
    /\ UNCHANGED <<stdioMode, term, shellVars, redirVars, waitVars, prog, dpc, dobuf, dcobuf, dexit,
                   dcstatus>>

\* fprintf(stderr, "exec failed\n")
DChildExecError ==
    /\ dcpc = "execfail"
    /\ term' = Append(term, [pid |-> 1, fd |-> STDERR_FILENO, text |-> "exec failed\n"])
    /\ dcpc' = "exit1"
    /\ UNCHANGED <<stdioMode, shellVars, redirVars, waitVars, prog, dpc, dobuf, dcobuf, dexit,
                   dcstatus>>

\* exit(1) after the failed exec: flushes stdout
DChildExit1 ==
    /\ dcpc = "exit1"
    /\ term' = term \o Written(1, STDOUT_FILENO, dcobuf)
    /\ dcobuf' = <<>>
    /\ dcstatus' = "exit1"
    /\ dcpc' = "zombie"
    /\ UNCHANGED <<stdioMode, shellVars, redirVars, waitVars, prog, dpc, dobuf, dexit>>

\* wc runs in the child: it prints the counts of its file to stdout, or a
\* diagnostic to stderr when it cannot read the file, and terminates
DWcRun ==
    /\ dcpc = "wc"
    /\ \E ok \in BOOLEAN :
          /\ term' = Append(term, IF ok
                THEN [pid |-> 1, fd |-> STDOUT_FILENO, text |-> "wc output"]
                ELSE [pid |-> 1, fd |-> STDERR_FILENO, text |-> "wc error"])
          /\ dcstatus' = IF ok THEN "exit0" ELSE "exit1"
    /\ dcpc' = "zombie"
    /\ UNCHANGED <<stdioMode, shellVars, redirVars, waitVars, prog, dpc, dobuf, dcobuf, dexit>>

\* a parent that does not wait for the child
DWaitNoBlock ==
    /\ dpc = "wait"
    /\ rcWait' = -1
    /\ dpc' = "summary"
    /\ UNCHANGED <<stdioMode, term, shellVars, redirVars, cpid, rc, prog, dcpc, dobuf, dcobuf,
                   dexit, dcstatus>>

\* rc_wait = wait(&status) blocks until the child
\* has terminated and returns its process identifier
DWait ==
    /\ dpc = "wait"
    /\ dcpc = "zombie"
    /\ dcpc' = "reaped"
    /\ rcWait' = cpid
    /\ dpc' = "summary"
    /\ UNCHANGED <<stdioMode, term, shellVars, redirVars, cpid, rc, prog, dobuf, dcobuf, dexit,
                   dcstatus>>

\* printf("parent of %ld (rc_wait: %ld) (pid: %ld)\n", ...) after the wait
DSummary ==
    /\ dpc = "summary"
    /\ term' = term \o Written(0, STDOUT_FILENO, PrintfOut(dobuf, "parent of\n"))
    /\ dobuf' = PrintfBuf(dobuf, "parent of\n")
    /\ dpc' = "exit0"
    /\ UNCHANGED <<stdioMode, shellVars, redirVars, waitVars, prog, dcpc, dcobuf, dexit, dcstatus>>

\* a parent of fork.c that prints only once the child has terminated
DParentPrintAfterChild ==
    /\ dpc = "print"
    /\ dcpc = "zombie"
    /\ term' = term \o Written(0, STDOUT_FILENO, PrintfOut(dobuf, "parent of\n"))
    /\ dobuf' = PrintfBuf(dobuf, "parent of\n")
    /\ dpc' = "exit0"
    /\ UNCHANGED <<stdioMode, shellVars, redirVars, waitVars, prog, dcpc, dcobuf, dexit, dcstatus>>

\* fork.c: printf("parent of %ld (pid: %ld)\n", ...) right after the fork
DParentPrint ==
    /\ dpc = "print"
    /\ term' = term \o Written(0, STDOUT_FILENO, PrintfOut(dobuf, "parent of\n"))
    /\ dobuf' = PrintfBuf(dobuf, "parent of\n")
    /\ dpc' = "exit0"
    /\ UNCHANGED <<stdioMode, shellVars, redirVars, waitVars, prog, dcpc, dcobuf, dexit, dcstatus>>

\* the parent's exit(0) at the end of main: flushes stdout
DExit0 ==
    /\ dpc = "exit0"
    /\ term' = term \o Written(0, STDOUT_FILENO, dobuf)
    /\ dobuf' = <<>>
    /\ dexit' = 0
    /\ dpc' = "done"
    /\ UNCHANGED <<stdioMode, shellVars, redirVars, waitVars, prog, dcpc, dcobuf, dcstatus>>

\* one of the demos has just been started from a terminal or with stdout
\* redirected
InitDemo ==
    /\ stdioMode \in StdioModes
    /\ term = <<>>
    /\ ShellIdle
    /\ RedirIdle
    /\ WaitIdle
    /\ prog \in Demos
    /\ dpc = "hello" /\ dcpc = "none"
    /\ dobuf = <<>> /\ dcobuf = <<>> /\ dexit = -1 /\ dcstatus = "none"

\* the steps of fork_wait.c and fork_wait_exec.c
NextWaitDemo ==
    \/ DHello
    \/ DFork
    \/ DForkFail
    \/ DForkError
    \/ DExit1
    \/ DChildPrint
    \/ DChildExit0
    \/ DChildExec
    \/ DChildExecFail
    \/ DChildExecError
    \/ DChildExit1
    \/ DWcRun
    \/ DWait
    \/ DSummary
    \/ DExit0

NextDemo ==
    \/ NextWaitDemo
    \/ DParentPrint

SpecDemo == InitDemo /\ [][NextDemo]_vars

\* the three programs that fork and wait: fork_wait.c, fork_wait_exec.c and
\* the redirect demo
InitWaitPrograms ==
    \/ InitDemo /\ prog \in WaitDemos
    \/ InitRedirect

NextWaitPrograms ==
    \/ NextWaitDemo
    \/ NextRedirect

SpecWaitPrograms == InitWaitPrograms /\ [][NextWaitPrograms]_vars

(***************************************************************************)
(* Properties of the minimal shell                                         *)
(***************************************************************************)
\* how often process pid wrote `text` to descriptor fd
Count(pid, fd, text) ==
    Cardinality({i \in 1..Len(term) : term[i] = [pid |-> pid, fd |-> fd, text |-> text]})

\* this step is a printf("%% ") of the shell
PromptIssued ==
    \/ /\ obuf' = Append(obuf, "% ") /\ term' = term
    \/ /\ obuf' = <<>> /\ term' = term \o Written(0, STDOUT_FILENO, Append(obuf, "% "))

\* this step makes the shell write something to the terminal
ShellWrites == \E i \in (Len(term) + 1)..Len(term') : term'[i].pid = 0

ExecFailed(p) == children[p].argv # <<>> /\ children[p].file \notin Programs

\* C1: the shell calls printf for the next prompt, reads the next line, or
\* writes anything to the terminal only when every child it has forked has
\* terminated; no such step happens while a child is still running.
C1_PromptAfterChild ==
    [][ ((pc \in {"prompt", "fgets"} /\ pc' # pc) \/ (pc # "start" /\ ShellWrites))
            => \A p \in Pids : ~Live(p) ]_vars

\* C1 witness: a child wrote its output, was reaped, and the shell's next
\* prompt is on the terminal after that output.
C1_Witness ==
    /\ pc = "fgets"
    /\ \E p \in Pids :
          /\ children[p].pc = "reaped" /\ children[p].wrote
          /\ \E i, j \in 1..Len(term) :
                i < j /\ term[i].pid = p /\ term[j] = [pid |-> 0, fd |-> 1, text |-> "% "]

\* C2: when fgets finds the input at end-of-stream the loop ends: the shell
\* goes to exit(0) without forking, and exit(0) leaves exit code 0.
C2_EofExitsZero ==
    [][ /\ (pc = "fgets" /\ input = <<>>) => (pc' = "exit0" /\ children' = children)
        /\ pc = "exit0" => (pc' = "done" /\ exitCode' = 0) ]_vars

\* C2 witness: the shell ended with code 0 on an empty input, no command issued.
C2_Witness == pc = "done" /\ exitCode = 0 /\ children = <<>> /\ input = <<>>

\* C3: a child whose execvp returned prints "exec error" once to descriptor 2
\* and terminates with exit status 1; when the shell reaps that child it goes
\* on to print the prompt and to read again.
C3_ExecFailure ==
    /\ [](\A p \in Pids :
            /\ children[p].pc = "execfail" => ExecFailed(p)
            /\ ExecFailed(p) =>
                 /\ children[p].pc \in {"execfail", "exit1", "zombie", "reaped"}
                 /\ Count(p, STDERR_FILENO, "exec error\n")
                      = (IF children[p].pc = "execfail" THEN 0 ELSE 1)
                 /\ children[p].pc \in {"zombie", "reaped"} => children[p].status = "exit1")
    /\ [][ /\ \A p \in Pids :
                (ExecFailed(p) /\ children[p].pc = "zombie" /\ children'[p].pc = "reaped")
                    => (pc = "wait" /\ pc' = "prompt")
           /\ pc = "prompt" => (pc' = "fgets" /\ PromptIssued) ]_vars

\* C3 witness: a child that failed to load "xyz" has been reaped and the shell
\* is reading again.
C3_Witness ==
    /\ pc = "fgets"
    /\ \E p \in Pids :
          /\ children[p].file = <<120, 121, 122>>
          /\ children[p].pc = "reaped"
          /\ children[p].status = "exit1"
          /\ Count(p, STDERR_FILENO, "exec error\n") = 1

\* C4: when fork fails no child is created, the shell writes "Fork error" to
\* descriptor 2 and exits with code 1 without waiting, prompting or reading;
\* the exit code is 1 exactly when fork failed and 0 otherwise.
C4_ForkFailure ==
    /\ [](/\ pc = "done" => exitCode \in {0, 1}
          /\ pc # "done" => exitCode = -1
          /\ exitCode = 1 <=> (pc = "done" /\ Count(0, STDERR_FILENO, "Fork error\n") = 1)
          /\ pc \in {"forkerr", "exit1"} => \A p \in Pids : children[p].pc = "reaped")
    /\ [][ /\ (pc = "fork" /\ pc' # "wait") => (pc' = "forkerr" /\ children' = children)
           /\ pc = "forkerr" =>
                /\ pc' = "exit1"
                /\ term' = Append(term, [pid |-> 0, fd |-> STDERR_FILENO,
                                         text |-> "Fork error\n"])
                /\ UNCHANGED <<input, buf, obuf, children>>
           /\ pc = "exit1" =>
                /\ pc' = "done" /\ exitCode' = 1
                /\ UNCHANGED <<input, buf, children>> ]_vars

\* C4 witness: the shell ended with code 1 after a failed fork on its second line.
C4_Witness ==
    /\ pc = "done" /\ exitCode = 1
    /\ Len(children) = 1
    /\ Count(0, STDERR_FILENO, "Fork error\n") = 1

\* C5: an empty line is dispatched like any other: the strip step leaves the
\* empty string, the shell forks, the child's execvp of "" fails and the child
\* exits with status 1, and after reaping it the shell prompts again.
C5_EmptyLine ==
    /\ [](\A p \in Pids :
            (children[p].argv # <<>> /\ children[p].file = <<>>) =>
                 /\ children[p].pc \in {"execfail", "exit1", "zombie", "reaped"}
                 /\ children[p].pc \in {"zombie", "reaped"} => children[p].status = "exit1")
    /\ [][ /\ (pc = "strip" /\ buf = <<NL>>) => (pc' = "fork" /\ CStr(buf') = <<>>)
           /\ (pc = "fork" /\ CStr(buf) = <<>>) =>
                \/ pc' = "forkerr"
                \/ /\ pc' = "wait"
                   /\ Len(children') = Len(children) + 1
                   /\ CStr(children'[Len(children')].buf) = <<>>
           /\ \A p \in Pids :
                (children[p].pc = "exec" /\ CStr(children[p].buf) = <<>>) =>
                    (children'[p].pc = "execfail" /\ children'[p].file = <<>>)
           /\ \A p \in Pids :
                (children[p].file = <<>> /\ children[p].pc = "zombie"
                    /\ children'[p].pc = "reaped") => pc' = "prompt" ]_vars

\* C5 witness: the child spawned for an empty first line failed to load "",
\* was reaped, and the shell is reading the next line.
C5_Witness ==
    /\ pc = "fgets"
    /\ Len(children) = 1
    /\ children[1].buf = <<NUL>>
    /\ children[1].argv = << <<>> >>
    /\ children[1].pc = "reaped"
    /\ children[1].status = "exit1"

\* the line without one trailing newline
WithoutNewline(s) ==
    IF s # <<>> /\ s[Len(s)] = NL THEN SubSeq(s, 1, Len(s) - 1) ELSE s

\* C6 (as claimed): the name passed to execvp, and argv[0], is the first
\* whitespace-free token of the line, and argv is [token, NULL].
C6_FirstTokenIsRun ==
    \A p \in Pids :
        children[p].argv # <<>> =>
            /\ children[p].file = FirstToken(CStr(children[p].buf))
            /\ children[p].argv = <<FirstToken(CStr(children[p].buf))>>

\* C6 (amended): the name passed to execvp, and argv[0], is the whole string
\* in buf: the bytes fgets stored, up to the first NUL, without one trailing
\* newline; whitespace is not a separator.  argv is [that string, NULL].
C6_WholeLineIsRun ==
    [][ /\ pc = "strip" => CStr(buf') = WithoutNewline(CStr(buf))
        /\ \A p \in Pids :
             (children[p].pc = "exec" /\ children'[p].pc # "exec") =>
                 /\ children'[p].file = CStr(buf)
                 /\ children'[p].argv = <<CStr(buf)>> ]_vars

\* C6 witness: the line "ls -l" was passed whole, blank included, and the
\* load failed.
C6_Witness ==
    \E p \in Pids :
        /\ children[p].file = <<108, 115, 32, 45, 108>>
        /\ children[p].argv = << <<108, 115, 32, 45, 108>> >>
        /\ children[p].pc = "reaped"
        /\ children[p].status = "exit1"

(***************************************************************************)
(* Properties of the redirect demo                                         *)
(***************************************************************************)
WcRanIn(r) == \E i \in 1..Len(events) : events[i] = [run |-> r, proc |-> "child", op |-> "wc"]

\* C7 (as claimed): when the program has been run twice in succession, wc
\* having run both times with the standard descriptors open and the second
\* open not refused by the environment, the second open succeeded on the
\* existing file and the file holds only the second run's output.
C7_SecondRunTruncates ==
    ( /\ run = 2 /\ rpc = "done"
      /\ WcRanIn(1) /\ WcRanIn(2)
      /\ \A fd \in {0, 1, 2} : pfd[fd] = "tty"
      /\ lastOpen.errno \notin {"ENV", "EMFILE"} )
        => /\ lastOpen.errno = "none"
           /\ file.content = <<[run |-> 2, text |-> "wc output"]>>

\* C8 (as claimed): whenever the child's open succeeded, it returned
\* descriptor 1, and descriptor 1 is bound to the file when execvp is called.
C8_OpenGetsStdout ==
    (cpc = "exec" /\ lastOpen.errno = "none")
        => (lastOpen.ret = STDOUT_FILENO /\ cfd[STDOUT_FILENO] = "file")

\* C9 (as claimed): the flags of the open call are exactly
\* O_RDWR | O_CREAT | O_TRUNC, and a file it creates gets mode S_IRWXU.
C9_FlagsAndMode ==
    lastOpen.flags # -1
        => /\ lastOpen.flags = IntendedFlags
           /\ lastOpen.created => file.mode = S_IRWXU

\* C10: in the system-call trace every close and open belongs to the child,
\* comes after the fork of its run and before the child's execvp, and happens
\* at most once per run; every execvp of the child is preceded by its close
\* and open; the parent's descriptor table never holds the file.
C10_RebindOnlyInChild ==
    /\ \A i \in 1..Len(events) :
          events[i].op \in {"close", "open"} =>
              /\ events[i].proc = "child"
              /\ \E j \in 1..(i - 1) :
                    events[j] = [run |-> events[i].run, proc |-> "parent", op |-> "fork"]
              /\ ~\E j \in 1..(i - 1) :
                    events[j] = [run |-> events[i].run, proc |-> "child", op |-> "exec"]
    /\ \A r \in 1..MaxRuns, op \in {"close", "open"} :
          Cardinality({i \in 1..Len(events) : events[i].run = r /\ events[i].op = op}) <= 1
    /\ \A i \in 1..Len(events) :
          events[i].op = "exec" =>
              \E j, k \in 1..(i - 1) :
                 /\ j < k
                 /\ events[j] = [run |-> events[i].run, proc |-> "child", op |-> "close"]
                 /\ events[k] = [run |-> events[i].run, proc |-> "child", op |-> "open"]
    /\ \A fd \in DOMAIN pfd : pfd[fd] # "file"

\* C10 witness: the child of the first run forked, closed, opened and
\* exec'ed in that order, and runs wc with descriptor 1 bound to the file.
C10_Witness ==
    /\ cpc = "wc"
    /\ cfd[STDOUT_FILENO] = "file"
    /\ events = <<[run |-> 1, proc |-> "parent", op |-> "fork"],
                  [run |-> 1, proc |-> "child", op |-> "close"],
                  [run |-> 1, proc |-> "child", op |-> "open"],
                  [run |-> 1, proc |-> "child", op |-> "exec"]>>

\* C11: no step of the child changes the parent's descriptor table; text of
\* the parent reaches only what the table it started with binds, so the
\* summary line is on the terminal when the parent is done with descriptor 1
\* open, and is never part of wc_output.txt.
C11_ParentBindingsKept ==
    /\ [](/\ \A i \in 1..Len(file.content) : file.content[i].text # "parent of\n"
          /\ (rpc = "done" /\ rexit = 0 /\ pfd[STDOUT_FILENO] = "tty")
                => \E i \in 1..Len(term) :
                      term[i] = [pid |-> 0, fd |-> STDOUT_FILENO, text |-> "parent of\n"])
    /\ [][pfd' = pfd]_vars

\* C11 witness: the child's descriptor 1 is the file, which holds wc's
\* output, and the parent, its descriptor 1 still the terminal, has written
\* its summary there.
C11_Witness ==
    /\ rpc = "done"
    /\ cpc = "reaped"
    /\ cfd[STDOUT_FILENO] = "file"
    /\ pfd[STDOUT_FILENO] = "tty"
    /\ file.content = <<[run |-> 1, text |-> "wc output"]>>
    /\ \E i \in 1..Len(term) :
          term[i] = [pid |-> 0, fd |-> STDOUT_FILENO, text |-> "parent of\n"]

\* C12: only the shell consumes input, forks, or calls printf; a child whose
\* execvp returned goes to its fprintf, then to exit(1), then stays
\* terminated: no step of a child reads, forks or adds to a stdout buffer.
C12_ChildNeverLoops ==
    [][ /\ input' # input => (pc = "fgets" /\ pc' = "strip" /\ children' = children)
        /\ Len(children') # Len(children) =>
              (pc = "fork" /\ pc' = "wait" /\ Len(children') = Len(children) + 1)
        /\ \A p \in Pids :
              /\ Len(children'[p].obuf) <= Len(children[p].obuf)
              /\ children[p].pc = "execfail" => children'[p].pc \in {"execfail", "exit1"}
              /\ children[p].pc = "exit1" => children'[p].pc \in {"exit1", "zombie"}
              /\ children[p].pc = "zombie" => children'[p].pc \in {"zombie", "reaped"}
              /\ children[p].pc = "reaped" => children'[p].pc = "reaped" ]_vars

\* C12 witness: a child's load failed and it has terminated while unread
\* input was still waiting and the shell was in wait.
C12_Witness ==
    /\ pc = "wait"
    /\ input # <<>>
    /\ \E p \in Pids : ExecFailed(p) /\ children[p].pc = "zombie"

\* C13: whatever the status of the child it reaps, the shell goes from wait
\* to the prompt with its own state untouched, then to the read, and the read
\* alone decides between the next command and exit(0); the shell's exit code
\* is 1 if it reported a fork error and 0 otherwise.
C13_StatusIgnored ==
    /\ [](pc = "done" =>
            exitCode = (IF Count(0, STDERR_FILENO, "Fork error\n") = 1 THEN 1 ELSE 0))
    /\ [][ /\ \A p \in Pids :
                (children[p].pc = "zombie" /\ children'[p].pc = "reaped") =>
                    /\ pc = "wait" /\ pc' = "prompt"
                    /\ UNCHANGED <<input, buf, obuf, exitCode, term>>
           /\ pc = "prompt" => pc' = "fgets"
           /\ pc = "fgets" => (pc' = (IF input = <<>> THEN "exit0" ELSE "strip")) ]_vars

\* C13 witness: the shell ended with code 0 after one child was killed by a
\* signal and another exited with status 1.
C13_Witness ==
    /\ pc = "done" /\ exitCode = 0
    /\ \E p, q \in Pids : children[p].status = "signal" /\ children[q].status = "exit1"

\* prompts the shell has issued: on the terminal or still in its buffer
PromptTotal(t, ob) ==
    Cardinality({i \in 1..Len(t) : t[i] = [pid |-> 0, fd |-> STDOUT_FILENO, text |-> "% "]})
      + Cardinality({i \in 1..Len(ob) : ob[i] = "% "})

ContinuesLongLine ==
    /\ Len(children) >= 1
    /\ Len(children[Len(children)].buf) = MAXLINE - 1
    /\ \A i \in 1..(MAXLINE - 1) : children[Len(children)].buf[i] \notin {NL, NUL}

\* C15 (as claimed): while the shell works through a line longer than the
\* buffer, the index strlen(buf) - 1 used by the strip step is inside
\* 0 .. MAXLINE - 1 and no access leaves buf.
C15_LongLineInBounds ==
    (pc \in {"strip", "fork"} /\ ContinuesLongLine)
        => /\ Len(buf) <= MAXLINE - 1
           /\ pc = "strip" => Strlen(buf) - 1 \in 0..(MAXLINE - 1)
           /\ oob = "none"

\* C16: a child that is not yet reaped exists only while the shell is in
\* wait, and it is the child forked last: at most one child is outstanding.
C16_OneChildOutstanding ==
    /\ Cardinality({p \in Pids : children[p].pc # "reaped"}) <= 1
    /\ \A p \in Pids : children[p].pc # "reaped" => (p = Len(children) /\ pc = "wait")

\* C16 witness: the second child runs its program, the first is reaped.
C16_Witness ==
    /\ Len(children) = 2
    /\ children[1].pc = "reaped"
    /\ children[2].pc = "running"

\* C17 (as claimed, its final result): the shell ends with exit code 0.
C17_EndsWithZero == pc = "done" => exitCode = 0

\* C17 (amended): while a child is running the shell stays in wait and
\* neither reads nor prompts; if every process is scheduled and every
\* exec'ed program terminates, the shell eventually exits, with code 0, or
\* with code 1 if a fork failed.
C17_WaitsThenExits ==
    /\ [][ (pc = "wait" /\ \E p \in Pids : Live(p))
              => (pc' = "wait" /\ UNCHANGED <<input, buf, obuf, exitCode>>) ]_vars
    /\ <>(/\ pc = "done"
          /\ exitCode = (IF Count(0, STDERR_FILENO, "Fork error\n") = 1 THEN 1 ELSE 0))

\* C17 witness: the shell has exited with code 0 after a command whose
\* program ran and terminated.
C17_Witness ==
    /\ pc = "done" /\ exitCode = 0
    /\ \E p \in Pids : children[p].file = ls /\ children[p].wrote /\ children[p].pc = "reaped"

\* C18: the child goes from open to execvp whatever open returned, writing
\* nothing; after a failed open descriptor 1 is closed when execvp is called
\* and while wc runs; the parent goes from wait to its summary whatever
\* happened in the child.
C18_OpenFailureUnnoticed ==
    /\ [](/\ (cpc \in {"exec", "wc"} /\ lastOpen.ret = -1) => cfd[STDOUT_FILENO] = "closed"
          /\ \A i \in 1..Len(term) : term[i].text \in
                {"hello\n", "parent of\n", "fork failed\n", "exec failed\n", "wc output"})
    /\ [][ /\ cpc = "open" => (cpc' = "exec" /\ term' = term)
           /\ (rpc = "wait" /\ rpc' # "wait") => (rpc' = "summary" /\ term' = term) ]_vars

\* C18 witness: the open failed with EEXIST, wc ran with descriptor 1
\* closed, and the parent printed its summary and exited with 0.
C18_Witness ==
    /\ rpc = "done" /\ rexit = 0
    /\ cpc = "reaped"
    /\ lastOpen.errno = "EEXIST"
    /\ lastOpen.ret = -1
    /\ cfd[STDOUT_FILENO] = "closed"
    /\ WcRanIn(run)

(***************************************************************************)
(* Properties of the programs that fork with and without wait              *)
(***************************************************************************)
\* the parent of a fork+wait program is past its wait
ParentPastWait ==
    \/ dpc \in {"summary", "exit0", "done"}
    \/ rpc \in {"summary", "exit0", "done"}

\* the child of the program has terminated and was collected by wait
ChildReaped == dcpc = "reaped" \/ cpc = "reaped"

\* this step outputs something of the child: to the terminal or to the file
ChildOutputs ==
    \/ \E i \in (Len(term) + 1)..Len(term') : term'[i].pid = 1
    \/ file' # file

\* this step outputs the parent's summary line
SummaryOutput ==
    \E i \in (Len(term) + 1)..Len(term') :
        term'[i] = [pid |-> 0, fd |-> STDOUT_FILENO, text |-> "parent of\n"]

\* C19: in fork_wait.c, fork_wait_exec.c and the redirect demo, once the
\* parent is past wait after a successful fork, rc_wait equals rc, the
\* child's process identifier, and the child has terminated; every output
\* of the child happens while the parent is still in wait, and the summary
\* line is output only past the wait, so it follows all of the child's
\* output in every interleaving.
C19_WaitOrdersOutput ==
    /\ [](ParentPastWait /\ rc > 0 => rcWait = rc /\ rc = cpid /\ ChildReaped)
    /\ [][ChildOutputs => (dpc = "wait" \/ rpc = "wait")]_vars
    /\ [][SummaryOutput => ParentPastWait /\ ChildReaped]_vars

\* fork_wait.c has run to its end on an unbuffered stdout: hello, the
\* child's line, then the summary, and wait returned the child's identifier
C19_Witness ==
    /\ prog = "fork_wait"
    /\ dpc = "done"
    /\ rc \in ChildPids
    /\ rcWait = rc
    /\ term = <<[pid |-> 0, fd |-> STDOUT_FILENO, text |-> "hello\n"],
                [pid |-> 1, fd |-> STDOUT_FILENO, text |-> "child\n"],
                [pid |-> 0, fd |-> STDOUT_FILENO, text |-> "parent of\n"]>>

\* C20: in fork.c nothing orders the two processes after the fork: while
\* both are about to print, either printf can be the next step; neither
\* process ever waits for the other before its printf or its exit; the
\* child terminates with exit(0) and so does the parent.
C20_NoOrderEnforced ==
    prog = "fork" =>
        /\ (dpc = "print" /\ dcpc = "print") => ENABLED DParentPrint /\ ENABLED DChildPrint
        /\ dpc = "print" => ENABLED DParentPrint
        /\ dpc = "exit0" => ENABLED DExit0
        /\ dcpc = "print" => ENABLED DChildPrint
        /\ dcpc = "exit0" => ENABLED DChildExit0
        /\ dcpc = "zombie" => dcstatus = "exit0"
        /\ (dpc = "done" /\ rc > 0) => dexit = 0

\* fork.c on an unbuffered stdout: the parent's line came out before the
\* child's, and both processes have exited with 0
C20_Witness ==
    /\ prog = "fork"
    /\ dpc = "done" /\ dexit = 0
    /\ dcpc = "zombie" /\ dcstatus = "exit0"
    /\ term = <<[pid |-> 0, fd |-> STDOUT_FILENO, text |-> "hello\n"],
                [pid |-> 0, fd |-> STDOUT_FILENO, text |-> "parent of\n"],
                [pid |-> 1, fd |-> STDOUT_FILENO, text |-> "child\n"]>>

\* fork.c on an unbuffered stdout: the child's line came out before the
\* parent's, and both processes have exited with 0
C20_ChildFirst ==
    /\ prog = "fork"
    /\ dpc = "done" /\ dexit = 0
    /\ dcpc = "zombie" /\ dcstatus = "exit0"
    /\ term = <<[pid |-> 0, fd |-> STDOUT_FILENO, text |-> "hello\n"],
                [pid |-> 1, fd |-> STDOUT_FILENO, text |-> "child\n"],
                [pid |-> 0, fd |-> STDOUT_FILENO, text |-> "parent of\n"]>>

(***************************************************************************)
(* Properties of the shell's line handling and of buffered output          *)
(***************************************************************************)
\* the bytes of the last fgets are one whole line of the input: they begin
\* at a line start and end with the newline, or with the end of the stream
ReadWholeLine ==
    /\ rd.chunk # <<>>
    /\ rd.atStart
    /\ (rd.chunk[Len(rd.chunk)] = NL \/ input = <<>>)

\* C21 (as claimed): while the shell waits for the child it forked for the
\* line just read, and that line fitted the buffer, the string the child
\* passed to execvp is the line without its terminating newline (the line
\* itself when it ended at end-of-stream) and holds no newline.
C21_LineStripped ==
    (pc = "wait" /\ children # <<>> /\ ReadWholeLine) =>
        LET c == children[Len(children)]
        IN  c.argv # <<>> =>
                /\ c.file = WithoutNewline(rd.chunk)
                /\ \A i \in 1..Len(c.file) : c.file[i] # NL

\* the same for the lines that hold no NUL byte
LineStrippedWithoutNul ==
    (\A i \in 1..Len(rd.chunk) : rd.chunk[i] # NUL) => C21_LineStripped

\* how often `text` was written to the terminal, by any process
Emitted(text) == Cardinality({i \in 1..Len(term) : term[i].text = text})

\* the demos: the hello line is on the terminal at most once, and exactly
\* once when parent and child have both terminated
HelloOnce ==
    prog \in Demos =>
        /\ Emitted("hello\n") <= 1
        /\ (dpc = "done" /\ dcpc \in {"none", "zombie", "reaped"}) => Emitted("hello\n") = 1

\* the shell: every prompt on the terminal was written by the shell itself,
\* and there are no more of them than the first one and one per child
PromptOnce ==
    /\ \A i \in 1..Len(term) : term[i].text = "% " => term[i].pid = 0
    /\ pc # "off" => Emitted("% ") <= Len(children) + 1

\* the redirect demo: the hello line is on the terminal at most once per
\* run and never in wc_output.txt
HelloNotInFile ==
    /\ rpc # "off" => Emitted("hello\n") <= run
    /\ \A i \in 1..Len(file.content) : file.content[i].text # "hello\n"

\* C22 (as claimed): under every buffering mode of stdout the hello line of
\* a demo is output exactly once, every prompt of the shell is output once
\* and by the shell, and text printed before the fork is neither output
\* again by a child that exits nor written to the redirection file.
C22_PreForkOutputOnce == HelloOnce /\ PromptOnce /\ HelloNotInFile

\* the same with stdout unbuffered or line buffered, as on a terminal
OnceOnTerminal == stdioMode # "full" => C22_PreForkOutputOnce

\* C23 (as claimed): whenever the strip step is about to run, the string
\* fgets stored has length at least 1, so strlen(buf) - 1 is an index of
\* buf, and no access outside buf has happened.
C23_StripIndexInBounds ==
    /\ pc = "strip" => (Strlen(buf) >= 1 /\ Strlen(buf) - 1 \in 0..(MAXLINE - 1))
    /\ oob = "none"

\* the same for the reads that do not begin with a NUL byte
StripInBoundsWithoutNul ==
    (pc = "strip" /\ buf[1] # NUL) => Strlen(buf) - 1 \in 0..(MAXLINE - 1)

====
